---- MODULE Spec2Model ----
(***************************************************************************)
(* MailSentryBot: the message risk-analysis pipeline of src/analyzers.py   *)
(* (VirusTotalClient and PhishingAnalyzer) as a state machine.             *)
(*                                                                         *)
(* One behaviour is one call of PhishingAnalyzer.analyze_message.  The     *)
(* message text, the analyzer's configuration and every answer of the      *)
(* outside world (redirect resolver, VirusTotal GET and POST, translator,  *)
(* classifier) are chosen nondeterministically from small sets.            *)
(*                                                                         *)
(* Strings of the source that are not ASCII are written in English; a line *)
(* of the report is a record (marker, url, detail) instead of one string.  *)
(***************************************************************************)
EXTENDS Integers, Sequences, FiniteSets, TLC

VARIABLES
    text,          \* argument of analyze_message: the message, a sequence of tokens
    nlp,           \* self.nlp is set (TRUE) or None (FALSE)
    pc,            \* position inside analyze_message
    urls,          \* local urls of analyze_message
    i,             \* number of URLs the for-loop has finished
    url,           \* loop variable url
    resolved,      \* expand_url: outcome of requests.get, until check_url starts
    expanded_url,  \* local expanded_url of _check_url_risk
    resp,          \* check_url: outcome of requests.get
    post_resp,     \* _handle_api_error: outcome of requests.post
    result,        \* dict returned by check_url
    report,        \* local report of analyze_message
    translation,   \* what translate_ru_to_en did
    nlp_input,     \* argument handed to self.nlp, <<>> while it was not called
    nlp_output,    \* what self.nlp did
    text_result,   \* dict returned by analyze_text
    exception,     \* exception that left analyze_message
    calls,         \* number of calls made to each outside service
    vt_client,     \* self.vt_client: the api key and the headers built from it
    tokenizer,     \* self.tokenizer
    world,         \* how the outside services answer: anyhow, or as functions of the request
    other,         \* the locals of a second call of analyze_message while it does not run
    overlapped,    \* the running call was suspended while it was under way
    expanded_urls, \* main.py, local expanded_urls of perform_analysis
    user_progress, \* main.py and bot.py, the global user_progress
    update,        \* the message or callback query the bot's handler was called with
    sent,          \* what that handler sent to Telegram, in order
    answered,      \* bot.py: the questions a user answered in the running test, and how
    vt_results     \* bot2.py: what check_url_virustotal returned to check_message, in order

vars == <<text, nlp, pc, urls, i, url, resolved, expanded_url, resp, post_resp,
          result, report, translation, nlp_input, nlp_output, text_result,
          exception, calls, vt_client, tokenizer, world, other, overlapped,
          expanded_urls, user_progress, update, sent, answered, vt_results>>

\* what no step of analyze_message assigns, apart from its own locals
outside == <<vt_client, tokenizer, world, other, overlapped,
             expanded_urls, user_progress, update, sent, answered, vt_results>>

(***************************************************************************)
(* Bounds                                                                  *)
(***************************************************************************)
MaxLen == 2        \* tokens in one message
MaxCount == 2      \* largest detection count VirusTotal reports
MaxCallLen == 1    \* tokens in a message when two calls are followed

(***************************************************************************)
(* Input universe                                                          *)
(***************************************************************************)
\* A word in Latin letters and words in Cyrillic letters (transliterated):
\* "privet" has letters between U+0430 and U+044F, "yo" is made of the letter
\* U+0451 only, which the alphabet has and that range has not.
LatinWords == {"hello"}
CyrillicWords == {"privet", "yo"}
\* The words with a letter that the character class of line 192 matches.
RangeWords == {"privet"}
\* A URL with a scheme and a bare domain.
UrlTokens == {"http://a.io", "b.io"}
Tokens == LatinWords \cup CyrillicWords \cup UrlTokens

RECURSIVE SeqsUpTo(_, _)
SeqsUpTo(S, n) ==
    IF n = 0 THEN {<<>>}
    ELSE LET shorter == SeqsUpTo(S, n - 1)
         IN shorter \cup {Append(s, t) : s \in {q \in shorter : Len(q) = n - 1}, t \in S}

Texts == SeqsUpTo(Tokens, MaxLen)

\* Python's None where a number was expected (a JSON null count).
None == -1

\* str(e) of the exceptions the outside world raises: empty or not.
ExcMessages == {"", "timed out"}

\* requests.exceptions.RequestException and its subclasses.
RequestExceptions == {"ConnectTimeout", "ConnectionError", "InvalidSchema"}

Exc(cls, msg) == [cls |-> cls, msg |-> msg]

NoExc == Exc("", "")

IsRequestException(e) == e.cls \in RequestExceptions

\* What requests.get and requests.post raise: the host does not answer
\* (timeout, DNS failure, refused connection) or the scheme is not supported.
NetworkExcs == {Exc("ConnectTimeout", m) : m \in ExcMessages}

\* The same for the resolver's GET, whose URL comes from the message.
ResolverExcs == {Exc("ConnectTimeout", "timed out"), Exc("InvalidSchema", "no adapter")}

(***************************************************************************)
(* Python helpers                                                          *)
(***************************************************************************)
\* dict.get(k, default)
DictGet(d, k, default) == IF k \in DOMAIN d THEN d[k] ELSE default

\* truth value of a str (a missing key yields None, written "" here)
Truthy(s) == s # ""

\* str.startswith(prefix)
StartsWith(s, prefix) ==
    /\ Len(s) >= Len(prefix)
    /\ SubSeq(s, 1, Len(prefix)) = prefix

StartsWithAny(s, prefixes) == \E p \in prefixes : StartsWith(s, p)

Return(v) == [raised |-> FALSE, value |-> v, exc |-> NoExc]

Raise(e) == [raised |-> TRUE, value |-> <<>>, exc |-> e]

\* no call was made
NoOutcome == Raise(NoExc)

(***************************************************************************)
(* Report lines                                                            *)
(***************************************************************************)
Line(marker, u, detail) == [marker |-> marker, url |-> u, detail |-> detail]

LinksPreamble == Line("links_preamble", "", "")
NoLinksLine == Line("no_links", "", "")
TextPreamble == Line("text_preamble", "", "")

UrlMarkers == {"warning", "queued", "dangerous", "suspicious", "safe"}
TextMarkers == {"text_error", "text_suspicious", "text_safe"}

(***************************************************************************)
(* VirusTotalClient                                                        *)
(***************************************************************************)
Schemes == {"http://", "https://", "ftp://"}

\* expand_url, the URL that is requested
full_url(u) == IF StartsWithAny(u, Schemes) THEN u ELSE "http://" \o u

\* Where a redirect chain can end.
Landing == "https://landing.io/login"

\* The timeout argument of the three network calls, in seconds; None where
\* the call passes none and requests waits as long as the host is silent.
ExpandTimeout == 7
GetTimeout == 10
PostTimeout == None

\* the call that never comes back
Forever == Exc("", "waits for ever")

\* A host that never answers: requests raises when the timeout is over, and
\* does not return when there is no timeout.
NoAnswer(timeout) ==
    IF timeout = None THEN Raise(Forever) ELSE Raise(Exc("ConnectTimeout", "timed out"))

Blocks(outcome) == outcome.raised /\ outcome.exc = Forever

\* the request is out and no answer has come
PendingResponse == [state |-> "pending", status_code |-> 0, body |-> <<>>]


\* Outcomes of the resolver's GET for a requested URL: the final response
\* (its .url is the requested URL or the end of a redirect chain) or an
\* exception.
ExpandOutcomes(u) ==
    {Return(full_url(u)), Return(Landing)} \cup {Raise(e) : e \in ResolverExcs}
        \cup {NoAnswer(ExpandTimeout)}

\* Mutant: on a failure the URL as typed is returned, not the requested one.
expand_url_AsTyped(u, outcome) ==
    IF outcome.raised THEN u ELSE outcome.value

expand_url(u, outcome) ==
    IF outcome.raised THEN full_url(u) ELSE outcome.value

\* JSON bodies of a report response.
CountValues == (0..MaxCount) \cup {None}

StatsDicts ==
    UNION {[keys -> CountValues] : keys \in SUBSET {"malicious", "suspicious"}}

Bodies ==
    {[json |-> "invalid", stats |-> <<>>], [json |-> "no_dict", stats |-> <<>>]}
        \cup {[json |-> "dict", stats |-> d] : d \in StatsDicts}

Statuses == {200, 404, 429, 500}

Response(code, body) == [state |-> "ok", status_code |-> code, body |-> body]

NoResponse == [state |-> "unset", status_code |-> 0, body |-> <<>>]

RaisedResponse == [state |-> "raised", status_code |-> 0, body |-> <<>>]

\* Answers of the report GET: the statuses 200 and 429 with every body, the
\* other statuses with a body without counts, or an exception.
GetOutcomes ==
    {Return(Response(c, b)) : c \in {200, 429}, b \in Bodies}
        \cup {Return(Response(c, [json |-> "invalid", stats |-> <<>>])) : c \in Statuses}
        \cup {Raise(e) : e \in NetworkExcs}
        \cup {NoAnswer(GetTimeout)}

PostOutcomes ==
    {Return(Response(c, <<>>)) : c \in {200, 500}}
        \cup {Raise(e) : e \in NetworkExcs}
        \cup {NoAnswer(PostTimeout)}

NoResult == <<>>

ErrorDict(msg) == [error |-> msg]

QueuedDict == [status |-> "queued", message |-> "URL submitted for analysis. Retry later."]

\* the two except clauses of check_url
check_url_except(e) ==
    IF IsRequestException(e)
    THEN ErrorDict("Network error: " \o e.msg)
    ELSE ErrorDict("Unknown error: " \o e.msg)

\* Mutant: a body that cannot be parsed counts as a report without detections.
check_url_200_SwallowParseError(body) ==
    IF body.json = "dict"
    THEN [malicious |-> DictGet(body.stats, "malicious", 0),
          suspicious |-> DictGet(body.stats, "suspicious", 0),
          harmless |-> DictGet(body.stats, "harmless", 0)]
    ELSE [malicious |-> 0, suspicious |-> 0, harmless |-> 0]

\* check_url, the branch for status 200
check_url_200(body) ==
    CASE body.json = "invalid" -> check_url_except(Exc("JSONDecodeError", "Expecting value"))
      [] body.json = "no_dict" -> check_url_except(Exc("AttributeError", "no attribute 'get'"))
      [] OTHER ->
            [malicious |-> DictGet(body.stats, "malicious", 0),
             suspicious |-> DictGet(body.stats, "suspicious", 0),
             harmless |-> DictGet(body.stats, "harmless", 0)]

\* Mutant: every answer to the submission counts as accepted.
handle_api_error_post_AnyAnswer(outcome) ==
    IF outcome.raised THEN check_url_except(outcome.exc) ELSE QueuedDict

\* Mutant: the submission counts as accepted on 201 only.
handle_api_error_post_Created(outcome) ==
    IF outcome.raised THEN check_url_except(outcome.exc)
    ELSE IF outcome.value.status_code = 201 THEN QueuedDict
    ELSE ErrorDict("Submission error: " \o ToString(outcome.value.status_code))

\* _handle_api_error after its POST, if any, has been answered
handle_api_error_post(outcome) ==
    IF outcome.raised THEN check_url_except(outcome.exc)
    ELSE IF outcome.value.status_code = 200 THEN QueuedDict
    ELSE ErrorDict("Submission error: " \o ToString(outcome.value.status_code))

\* Mutant: 429 is not told apart from the other statuses.
handle_api_error_other_NoRateLimit(code) ==
    ErrorDict("API error: " \o ToString(code))

\* _handle_api_error for the statuses that need no POST
handle_api_error_other(code) ==
    IF code = 429 THEN ErrorDict("Request limit exceeded")
    ELSE ErrorDict("API error: " \o ToString(code))

(***************************************************************************)
(* PhishingAnalyzer                                                        *)
(***************************************************************************)
IsUrl(token) == token \in UrlTokens

\* extract_urls: the URL-like tokens in the order of the text
extract_urls(t) == SelectSeq(t, IsUrl)

\* re.search(r'[а-яА-Я]', text)
HasCyrillic(t) == \E k \in 1..Len(t) : t[k] \in RangeWords

\* translate_ru_to_en when it succeeds: Cyrillic words become English ones
TranslateToken(token) == IF token \in CyrillicWords THEN "hi" ELSE token

translate_ru_to_en(t) == [k \in 1..Len(t) |-> TranslateToken(t[k])]

\* Mutant: one detection is already Dangerous.
format_url_result_OneIsDangerous(u, res) ==
    IF Truthy(DictGet(res, "error", "")) THEN Return(Line("warning", u, res["error"]))
    ELSE IF DictGet(res, "status", "") = "queued" THEN Return(Line("queued", u, ""))
    ELSE LET m == DictGet(res, "malicious", 0)
             s == DictGet(res, "suspicious", 0)
             TypeError == Raise(Exc("TypeError", "'>' not supported"))
         IN  IF m = None THEN TypeError
             ELSE IF m > 0 THEN Return(Line("dangerous", u, ""))
             ELSE IF s = None THEN TypeError
             ELSE IF s > 0 THEN Return(Line("dangerous", u, ""))
             ELSE Return(Line("safe", u, ""))

\* format_url_result; a comparison of None with a number raises TypeError
format_url_result(u, res) ==
    IF Truthy(DictGet(res, "error", "")) THEN Return(Line("warning", u, res["error"]))
    ELSE IF DictGet(res, "status", "") = "queued" THEN Return(Line("queued", u, ""))
    ELSE LET m == DictGet(res, "malicious", 0)
             s == DictGet(res, "suspicious", 0)
             TypeError == Raise(Exc("TypeError", "'>' not supported"))
         IN  IF m = None THEN TypeError
             ELSE IF m > 1 THEN Return(Line("dangerous", u, ""))
             ELSE IF s = None THEN TypeError
             ELSE IF s > 1 THEN Return(Line("dangerous", u, ""))
             ELSE IF m > 0 \/ s > 0 THEN Return(Line("suspicious", u, ""))
             ELSE Return(Line("safe", u, ""))

\* the except clause of _check_url_risk
check_url_risk_except(u, e) == Line("warning", u, "Error (" \o e.cls \o ")")

\* _check_url_risk once expand_url and check_url have returned
check_url_risk_line(u, res) ==
    LET formatted == format_url_result(u, res)
    IN  IF formatted.raised THEN check_url_risk_except(u, formatted.exc)
        ELSE formatted.value

\* Confidence scores in thousandths, and f"{score:.0%}": the score times 100,
\* rounded half to even.
FormatPercent(score) ==
    LET whole == score \div 10
        rest == score % 10
        rounded == IF rest > 5 \/ (rest = 5 /\ whole % 2 = 1) THEN whole + 1 ELSE whole
    IN  ToString(rounded) \o "%"

Scores == {500, 501, 510, 515}

Threshold == 500

Labels == {"phishing", "benign", "LABEL_1"}

\* Outcomes of self.nlp(text)[0]
NlpOutcomes ==
    {Return([label |-> l, score |-> s]) : l \in Labels, s \in Scores}
        \cup {Raise(Exc("RuntimeError", m)) : m \in ExcMessages}

TranslateOutcomes(t) ==
    {Return(translate_ru_to_en(t))} \cup {Raise(Exc("OSError", m)) : m \in ExcMessages}

\* analyze_text, from the classifier's outcome to the returned dict
analyze_text_result(outcome) ==
    IF outcome.raised THEN ErrorDict(outcome.exc.msg)
    ELSE [label |-> IF outcome.value.label = "phishing" THEN "phishing" ELSE "safe",
          score |-> outcome.value.score]

\* Mutant: the threshold is not strict.
text_verdict_NotStrict(res) ==
    IF Truthy(DictGet(res, "error", "")) THEN Return(Line("text_error", "", res["error"]))
    ELSE IF "label" \notin DOMAIN res THEN Raise(Exc("KeyError", "'label'"))
    ELSE IF res["label"] = "phishing" /\ res["score"] >= Threshold
         THEN Return(Line("text_suspicious", "", FormatPercent(res["score"])))
    ELSE Return(Line("text_safe", "", ""))

\* analyze_message, lines 290-296: the verdict line, or the KeyError of
\* result['label'] on a dict that has no such key
text_verdict(res) ==
    IF Truthy(DictGet(res, "error", "")) THEN Return(Line("text_error", "", res["error"]))
    ELSE IF "label" \notin DOMAIN res THEN Raise(Exc("KeyError", "'label'"))
    ELSE IF res["label"] = "phishing" /\ res["score"] > Threshold
         THEN Return(Line("text_suspicious", "", FormatPercent(res["score"])))
    ELSE Return(Line("text_safe", "", ""))

(***************************************************************************)
(* The state machine of analyze_message                                    *)
(***************************************************************************)
\* The outside services, and the steps of analyze_message that are counted.
Services == {"expand", "get", "post", "translate", "nlp",
             "extract_urls", "format", "analyze_text"}

Called(service) == [calls EXCEPT ![service] = @ + 1]

\* The services answer anyhow, each call on its own.
AnyWorld == [kind |-> "any"]

\* The outcomes a call of a service can have: all of them, or the one the
\* world gives for that request when the services are deterministic.
Answers(service, request, outcomes) ==
    IF world = AnyWorld THEN outcomes
    ELSE outcomes \cap {world[service][request]}

\* there is no second call
NoFrame == [pc |-> "none"]

\* no handler of a bot has been called
NoUpdate == [handler |-> "none"]

\* the bots of main.py and bot.py are not running
InitNoBot ==
    /\ expanded_urls = <<>>
    /\ user_progress = <<>>
    /\ update = NoUpdate
    /\ sent = <<>>
    /\ answered = <<>>
    /\ vt_results = <<>>

\* VirusTotalClient.__init__ and PhishingAnalyzer.__init__
InitAnalyzer ==
    /\ nlp \in BOOLEAN
    /\ vt_client = [api_key |-> "key", headers |-> ("x-apikey" :> "key")]
    /\ tokenizer = "tokenizer"

\* the locals of analyze_message when it is entered
InitCall ==
    /\ pc = "start"
    /\ urls = <<>>
    /\ i = 0
    /\ url = ""
    /\ resolved = NoOutcome
    /\ expanded_url = ""
    /\ resp = NoResponse
    /\ post_resp = NoResponse
    /\ result = NoResult
    /\ report = <<>>
    /\ translation = NoOutcome
    /\ nlp_input = <<>>
    /\ nlp_output = NoOutcome
    /\ text_result = NoResult
    /\ exception = NoExc
    /\ calls = [s \in Services |-> 0]

\* one call of analyze_message, the services answering anyhow
Init ==
    /\ InitAnalyzer
    /\ text \in Texts
    /\ InitCall
    /\ world = AnyWorld
    /\ other = NoFrame
    /\ overlapped = FALSE
    /\ InitNoBot

\* Mutant: the links preamble is written before the URLs are looked at.
ExtractUrls_PreambleFirst ==
    /\ pc = "start"
    /\ urls' = extract_urls(text)
    /\ IF urls' # <<>>
       THEN /\ report' = <<LinksPreamble>>
            /\ pc' = "expand"
       ELSE /\ report' = <<LinksPreamble, NoLinksLine>>
            /\ pc' = "analyze_text"
    /\ calls' = Called("extract_urls")
    /\ UNCHANGED <<outside, text, nlp, i, url, resolved, expanded_url, resp, post_resp,
                   result, translation, nlp_input, nlp_output, text_result,
                   exception>>

\* Mutant: the report is a default argument, the list of the call before.
ExtractUrls_KeepsReport ==
    /\ pc = "start"
    /\ urls' = extract_urls(text)
    /\ IF urls' # <<>>
       THEN /\ report' = (IF other = NoFrame THEN <<>> ELSE other.report) \o <<LinksPreamble>>
            /\ pc' = "expand"
       ELSE /\ report' = (IF other = NoFrame THEN <<>> ELSE other.report) \o <<NoLinksLine>>
            /\ pc' = "analyze_text"
    /\ calls' = Called("extract_urls")
    /\ UNCHANGED <<outside, text, nlp, i, url, resolved, expanded_url, resp, post_resp,
                   result, translation, nlp_input, nlp_output, text_result,
                   exception>>

\* Mutant: a URL that occurs again in the message is looked at once.
ExtractUrls_Deduplicated ==
    /\ pc = "start"
    /\ urls' = LET found == extract_urls(text)
                   first(k) == \A j \in 1..(k - 1) : found[j] # found[k]
                   kept == {k \in 1..Len(found) : first(k)}
               IN  IF Cardinality(kept) = Len(found) THEN found ELSE <<found[1]>>
    /\ IF urls' # <<>>
       THEN /\ report' = <<LinksPreamble>>
            /\ pc' = "expand"
       ELSE /\ report' = <<NoLinksLine>>
            /\ pc' = "analyze_text"
    /\ calls' = Called("extract_urls")
    /\ UNCHANGED <<outside, text, nlp, i, url, resolved, expanded_url, resp, post_resp,
                   result, translation, nlp_input, nlp_output, text_result,
                   exception>>

\* lines 277-285: extract the URLs and open the links section
ExtractUrls ==
    /\ pc = "start"
    /\ urls' = extract_urls(text)
    /\ IF urls' # <<>>
       THEN /\ report' = <<LinksPreamble>>
            /\ pc' = "expand"
       ELSE /\ report' = <<NoLinksLine>>
            /\ pc' = "analyze_text"
    /\ calls' = Called("extract_urls")
    /\ UNCHANGED <<outside, text, nlp, i, url, resolved, expanded_url, resp, post_resp,
                   result, translation, nlp_input, nlp_output, text_result,
                   exception>>

\* line 282 and _check_url_risk line 261: take the next URL and resolve it
ExpandUrl ==
    /\ pc = "expand"
    /\ url' = urls[i + 1]
    /\ \E outcome \in Answers("expand", url', ExpandOutcomes(url')) :
          /\ resolved' = outcome
          /\ IF Blocks(outcome)
             THEN /\ expanded_url' = ""
                  /\ pc' = "blocked"
             ELSE /\ expanded_url' = expand_url(url', outcome)
                  /\ pc' = "get"
    /\ resp' = NoResponse
    /\ post_resp' = NoResponse
    /\ result' = NoResult
    /\ calls' = Called("expand")
    /\ UNCHANGED <<outside, text, nlp, urls, i, report, translation, nlp_input,
                   nlp_output, text_result, exception>>

\* Mutant: a rate-limited GET is sent again.
CheckUrlGet_RetryRateLimit ==
    /\ pc = "get"
    /\ calls' = Called("get")
    /\ resolved' = NoOutcome
    /\ \E outcome \in Answers("get", expanded_url, GetOutcomes) :
          IF outcome.raised
          THEN /\ resp' = RaisedResponse
               /\ result' = check_url_except(outcome.exc)
               /\ pc' = "format"
          ELSE /\ resp' = outcome.value
               /\ CASE outcome.value.status_code = 200 ->
                         /\ result' = check_url_200(outcome.value.body)
                         /\ pc' = "format"
                    [] outcome.value.status_code = 404 ->
                         /\ result' = NoResult
                         /\ pc' = "post"
                    [] outcome.value.status_code = 429 ->
                         /\ result' = NoResult
                         /\ pc' = "get"
                    [] OTHER ->
                         /\ result' = handle_api_error_other(outcome.value.status_code)
                         /\ pc' = "format"
    /\ UNCHANGED <<outside, text, nlp, urls, i, url, expanded_url, post_resp, report,
                   translation, nlp_input, nlp_output, text_result, exception>>

\* Mutant: the lookup is made for the URL that was requested, not for the
\* one the resolver ended at.
CheckUrlGet_LooksUpRequested ==
    /\ pc = "get"
    /\ calls' = Called("get")
    /\ resolved' = NoOutcome
    /\ \E outcome \in Answers("get", full_url(url), GetOutcomes) :
          IF Blocks(outcome)
          THEN /\ resp' = PendingResponse
               /\ result' = NoResult
               /\ pc' = "blocked"
          ELSE IF outcome.raised
          THEN /\ resp' = RaisedResponse
               /\ result' = check_url_except(outcome.exc)
               /\ pc' = "format"
          ELSE /\ resp' = outcome.value
               /\ CASE outcome.value.status_code = 200 ->
                         /\ result' = check_url_200(outcome.value.body)
                         /\ pc' = "format"
                    [] outcome.value.status_code = 404 ->
                         /\ result' = NoResult
                         /\ pc' = "post"
                    [] OTHER ->
                         /\ result' = handle_api_error_other(outcome.value.status_code)
                         /\ pc' = "format"
    /\ UNCHANGED <<outside, text, nlp, urls, i, url, expanded_url, post_resp, report,
                   translation, nlp_input, nlp_output, text_result, exception>>

\* check_url lines 93-116, up to the POST of _handle_api_error
CheckUrlGet ==
    /\ pc = "get"
    /\ calls' = Called("get")
    /\ resolved' = NoOutcome
    /\ \E outcome \in Answers("get", expanded_url, GetOutcomes) :
          IF Blocks(outcome)
          THEN /\ resp' = PendingResponse
               /\ result' = NoResult
               /\ pc' = "blocked"
          ELSE IF outcome.raised
          THEN /\ resp' = RaisedResponse
               /\ result' = check_url_except(outcome.exc)
               /\ pc' = "format"
          ELSE /\ resp' = outcome.value
               /\ CASE outcome.value.status_code = 200 ->
                         /\ result' = check_url_200(outcome.value.body)
                         /\ pc' = "format"
                    [] outcome.value.status_code = 404 ->
                         /\ result' = NoResult
                         /\ pc' = "post"
                    [] OTHER ->
                         /\ result' = handle_api_error_other(outcome.value.status_code)
                         /\ pc' = "format"
    /\ UNCHANGED <<outside, text, nlp, urls, i, url, expanded_url, post_resp, report,
                   translation, nlp_input, nlp_output, text_result, exception>>

\* _handle_api_error lines 67-75: submit the URL for scanning
SubmitUrlPost ==
    /\ pc = "post"
    /\ calls' = Called("post")
    /\ \E outcome \in Answers("post", expanded_url, PostOutcomes) :
          IF Blocks(outcome)
          THEN /\ post_resp' = PendingResponse
               /\ result' = NoResult
               /\ pc' = "blocked"
          ELSE /\ post_resp' = IF outcome.raised THEN RaisedResponse ELSE outcome.value
               /\ result' = handle_api_error_post(outcome)
               /\ pc' = "format"
    /\ UNCHANGED <<outside, text, nlp, urls, i, url, resolved, expanded_url, resp, report,
                   translation, nlp_input, nlp_output, text_result, exception>>

\* Mutant: a URL whose check failed gets no line.
AppendUrlLine_SkipFailed ==
    /\ pc = "format"
    /\ report' = IF "error" \in DOMAIN result THEN report
                 ELSE Append(report, check_url_risk_line(url, result))
    /\ i' = i + 1
    /\ pc' = IF i' < Len(urls) THEN "expand" ELSE "analyze_text"
    /\ calls' = Called("format")
    /\ UNCHANGED <<outside, text, nlp, urls, url, resolved, expanded_url, resp, post_resp,
                   result, translation, nlp_input, nlp_output, text_result,
                   exception>>

\* Mutant: a URL whose check failed ends the loop over the URLs.
AppendUrlLine_FailureEndsLoop ==
    /\ pc = "format"
    /\ report' = Append(report, check_url_risk_line(url, result))
    /\ i' = i + 1
    /\ pc' = IF i' < Len(urls) /\ "error" \notin DOMAIN result
             THEN "expand" ELSE "analyze_text"
    /\ calls' = Called("format")
    /\ UNCHANGED <<outside, text, nlp, urls, url, resolved, expanded_url, resp, post_resp,
                   result, translation, nlp_input, nlp_output, text_result,
                   exception>>

\* _check_url_risk lines 263-265 and analyze_message line 283
AppendUrlLine ==
    /\ pc = "format"
    /\ report' = Append(report, check_url_risk_line(url, result))
    /\ i' = i + 1
    /\ pc' = IF i' < Len(urls) THEN "expand" ELSE "analyze_text"
    /\ calls' = Called("format")
    /\ UNCHANGED <<outside, text, nlp, urls, url, resolved, expanded_url, resp, post_resp,
                   result, translation, nlp_input, nlp_output, text_result,
                   exception>>

\* Mutant: the text is translated before the classifier is looked for.
AnalyzeText_TranslateFirst ==
    /\ pc = "analyze_text"
    /\ report' = Append(report, TextPreamble)
    /\ url' = ""
    /\ expanded_url' = ""
    /\ resp' = NoResponse
    /\ post_resp' = NoResponse
    /\ result' = NoResult
    /\ IF HasCyrillic(text)
       THEN /\ text_result' = text_result
            /\ nlp_input' = nlp_input
            /\ pc' = "translate"
       ELSE IF ~nlp
            THEN /\ text_result' = ErrorDict("Model not loaded")
                 /\ nlp_input' = nlp_input
                 /\ pc' = "verdict"
            ELSE /\ text_result' = text_result
                 /\ nlp_input' = text
                 /\ pc' = "classify"
    /\ calls' = Called("analyze_text")
    /\ UNCHANGED <<outside, text, nlp, urls, i, resolved, translation, nlp_output,
                   exception>>

\* Mutant: analyze_text is entered a second time.
AnalyzeText_Twice ==
    /\ pc = "analyze_text"
    /\ report' = Append(report, TextPreamble)
    /\ url' = ""
    /\ expanded_url' = ""
    /\ resp' = NoResponse
    /\ post_resp' = NoResponse
    /\ result' = NoResult
    /\ IF calls["analyze_text"] = 0
       THEN /\ text_result' = text_result
            /\ nlp_input' = nlp_input
            /\ pc' = "analyze_text"
       ELSE IF ~nlp
            THEN /\ text_result' = ErrorDict("Model not loaded")
                 /\ nlp_input' = nlp_input
                 /\ pc' = "verdict"
            ELSE /\ text_result' = text_result
                 /\ IF HasCyrillic(text)
                    THEN /\ nlp_input' = nlp_input
                         /\ pc' = "translate"
                    ELSE /\ nlp_input' = text
                         /\ pc' = "classify"
    /\ calls' = Called("analyze_text")
    /\ UNCHANGED <<outside, text, nlp, urls, i, resolved, translation, nlp_output,
                   exception>>

\* analyze_message line 287 and analyze_text lines 188-192
AnalyzeText ==
    /\ pc = "analyze_text"
    /\ report' = Append(report, TextPreamble)
    /\ url' = ""
    /\ expanded_url' = ""
    /\ resp' = NoResponse
    /\ post_resp' = NoResponse
    /\ result' = NoResult
    /\ IF ~nlp
       THEN /\ text_result' = ErrorDict("Model not loaded")
            /\ nlp_input' = nlp_input
            /\ pc' = "verdict"
       ELSE /\ text_result' = text_result
            /\ IF HasCyrillic(text)
               THEN /\ nlp_input' = nlp_input
                    /\ pc' = "translate"
               ELSE /\ nlp_input' = text
                    /\ pc' = "classify"
    /\ calls' = Called("analyze_text")
    /\ UNCHANGED <<outside, text, nlp, urls, i, resolved, translation, nlp_output,
                   exception>>

\* Mutant: when the translation fails the original text is classified.
Translate_FallBackToOriginal ==
    /\ pc = "translate"
    /\ calls' = Called("translate")
    /\ \E outcome \in Answers("translate", text, TranslateOutcomes(text)) :
          /\ translation' = outcome
          /\ text_result' = text_result
          /\ nlp_input' = IF outcome.raised THEN text ELSE outcome.value
          /\ pc' = "classify"
    /\ UNCHANGED <<outside, text, nlp, urls, i, url, resolved, expanded_url, resp,
                   post_resp, result, report, nlp_output, exception>>

\* analyze_text lines 193-198
Translate ==
    /\ pc = "translate"
    /\ calls' = Called("translate")
    /\ \E outcome \in Answers("translate", text, TranslateOutcomes(text)) :
          /\ translation' = outcome
          /\ IF outcome.raised
             THEN /\ text_result' = ErrorDict("Translation error: " \o outcome.exc.msg)
                  /\ nlp_input' = nlp_input
                  /\ pc' = "verdict"
             ELSE /\ text_result' = text_result
                  /\ nlp_input' = outcome.value
                  /\ pc' = "classify"
    /\ UNCHANGED <<outside, text, nlp, urls, i, url, resolved, expanded_url, resp,
                   post_resp, result, report, nlp_output, exception>>

\* analyze_text lines 201-210
Classify ==
    /\ pc = "classify"
    /\ calls' = Called("nlp")
    /\ \E outcome \in Answers("nlp", nlp_input, NlpOutcomes) :
          /\ nlp_output' = outcome
          /\ text_result' = analyze_text_result(outcome)
    /\ pc' = "verdict"
    /\ UNCHANGED <<outside, text, nlp, urls, i, url, resolved, expanded_url, resp,
                   post_resp, result, report, translation, nlp_input, exception>>

\* Mutant: a safe text gets no line.
TextVerdict_SilentWhenSafe ==
    /\ pc = "verdict"
    /\ LET verdict == text_verdict(text_result)
       IN  IF verdict.raised
           THEN /\ exception' = verdict.exc
                /\ report' = report
                /\ pc' = "raised"
           ELSE /\ exception' = exception
                /\ report' = IF verdict.value.marker = "text_safe" THEN report
                             ELSE Append(report, verdict.value)
                /\ pc' = "done"
    /\ UNCHANGED <<outside, text, nlp, urls, i, url, resolved, expanded_url, resp,
                   post_resp, result, translation, nlp_input, nlp_output,
                   text_result, calls>>

\* analyze_message lines 290-298
TextVerdict ==
    /\ pc = "verdict"
    /\ LET verdict == text_verdict(text_result)
       IN  IF verdict.raised
           THEN /\ exception' = verdict.exc
                /\ report' = report
                /\ pc' = "raised"
           ELSE /\ exception' = exception
                /\ report' = Append(report, verdict.value)
                /\ pc' = "done"
    /\ UNCHANGED <<outside, text, nlp, urls, i, url, resolved, expanded_url, resp,
                   post_resp, result, translation, nlp_input, nlp_output,
                   text_result, calls>>

Next ==
    \/ ExtractUrls
    \/ ExpandUrl
    \/ CheckUrlGet
    \/ SubmitUrlPost
    \/ AppendUrlLine
    \/ AnalyzeText
    \/ Translate
    \/ Classify
    \/ TextVerdict

Spec == Init /\ [][Next]_vars

(***************************************************************************)
(* analyze_message as a function of the message, the classifier and the    *)
(* answers of deterministic services                                       *)
(***************************************************************************)
\* check_url lines 93-116 with _handle_api_error
check_url(u, w) ==
    LET got == w["get"][u]
    IN  IF got.raised THEN check_url_except(got.exc)
        ELSE CASE got.value.status_code = 200 -> check_url_200(got.value.body)
               [] got.value.status_code = 404 -> handle_api_error_post(w["post"][u])
               [] OTHER -> handle_api_error_other(got.value.status_code)

\* _check_url_risk lines 258-265
check_url_risk(u, w) ==
    check_url_risk_line(u, check_url(expand_url(u, w["expand"][u]), w))

\* analyze_text lines 188-210
analyze_text(t, n, w) ==
    IF ~n THEN ErrorDict("Model not loaded")
    ELSE IF HasCyrillic(t)
         THEN LET translated == w["translate"][t]
              IN  IF translated.raised
                  THEN ErrorDict("Translation error: " \o translated.exc.msg)
                  ELSE analyze_text_result(w["nlp"][translated.value])
         ELSE analyze_text_result(w["nlp"][t])

\* analyze_message lines 277-298: what it returns or raises, and the report
\* it has built by then
analyze_message(t, n, w) ==
    LET found == extract_urls(t)
        links == IF found # <<>>
                 THEN <<LinksPreamble>> \o [k \in 1..Len(found) |-> check_url_risk(found[k], w)]
                 ELSE <<NoLinksLine>>
        verdict == text_verdict(analyze_text(t, n, w))
    IN  IF verdict.raised
        THEN [pc |-> "raised", report |-> links \o <<TextPreamble>>, exception |-> verdict.exc]
        ELSE [pc |-> "done", report |-> links \o <<TextPreamble, verdict.value>>,
              exception |-> NoExc]

(***************************************************************************)
(* Two calls of analyze_message on one analyzer, deterministic services    *)
(***************************************************************************)
CallTexts == SeqsUpTo(Tokens, MaxCallLen)

\* the URLs the report GET and the submission POST are asked about
LookupUrls == {full_url(u) : u \in UrlTokens} \cup {Landing}

\* what the classifier is handed
NlpInputs == CallTexts \cup {translate_ru_to_en(t) : t \in CallTexts}

Contains(t, token) == \E k \in 1..Len(t) : t[k] = token

\* Deterministic services: every answer is a function of the request.
ExpandBehaviours ==
    { [u \in UrlTokens |-> Return(full_url(u))],
      [u \in UrlTokens |-> IF StartsWithAny(u, Schemes) THEN Return(Landing)
                           ELSE Raise(Exc("ConnectTimeout", "timed out"))] }

GetBehaviours ==
    { [r \in LookupUrls |->
          Return(Response(200, [json |-> "dict", stats |-> [malicious |-> MaxCount]]))],
      [r \in LookupUrls |->
          IF r = Landing THEN Return(Response(429, [json |-> "invalid", stats |-> <<>>]))
          ELSE IF r = "http://b.io"
               THEN Return(Response(404, [json |-> "invalid", stats |-> <<>>]))
               ELSE Return(Response(200, [json |-> "dict", stats |-> <<>>]))] }

PostBehaviours ==
    { [r \in LookupUrls |-> Return(Response(200, <<>>))],
      [r \in LookupUrls |-> Raise(Exc("ConnectTimeout", ""))] }

TextBehaviours ==
    { [translate |-> [t \in CallTexts |-> Return(translate_ru_to_en(t))],
       nlp |-> [x \in NlpInputs |-> Return([label |-> "phishing", score |-> 510])]],
      [translate |-> [t \in CallTexts |->
                         IF Contains(t, "hello") THEN Raise(Exc("OSError", "timed out"))
                         ELSE Return(translate_ru_to_en(t))],
       nlp |-> [x \in NlpInputs |->
                   IF Contains(x, "hi") THEN Raise(Exc("RuntimeError", ""))
                   ELSE Return([label |-> "benign", score |-> 515])]] }

Backends ==
    { [expand |-> e, get |-> g, post |-> p, translate |-> x.translate, nlp |-> x.nlp] :
          e \in ExpandBehaviours, g \in GetBehaviours, p \in PostBehaviours,
          x \in TextBehaviours }

\* the locals of the running call
Frame ==
    [text |-> text, pc |-> pc, urls |-> urls, i |-> i, url |-> url,
     resolved |-> resolved, expanded_url |-> expanded_url, resp |-> resp,
     post_resp |-> post_resp, result |-> result, report |-> report,
     translation |-> translation, nlp_input |-> nlp_input,
     nlp_output |-> nlp_output, text_result |-> text_result,
     exception |-> exception, calls |-> calls]

\* the locals of a call that has not begun
StartFrame(t) ==
    [text |-> t, pc |-> "start", urls |-> <<>>, i |-> 0, url |-> "",
     resolved |-> NoOutcome, expanded_url |-> "", resp |-> NoResponse,
     post_resp |-> NoResponse, result |-> NoResult, report |-> <<>>,
     translation |-> NoOutcome, nlp_input |-> <<>>, nlp_output |-> NoOutcome,
     text_result |-> NoResult, exception |-> NoExc,
     calls |-> [s \in Services |-> 0]]

InitCalls ==
    /\ InitAnalyzer
    /\ text \in CallTexts
    /\ InitCall
    /\ world \in Backends
    /\ other \in {StartFrame(t) : t \in CallTexts}
    /\ overlapped = FALSE
    /\ InitNoBot

\* Mutant: the report is an attribute of the analyzer, the calls share it.
Switch_SharedReport ==
    /\ other.pc \notin {"none", "done", "raised", "blocked"}
    /\ other' = Frame
    /\ text' = other.text
    /\ pc' = other.pc
    /\ urls' = other.urls
    /\ i' = other.i
    /\ url' = other.url
    /\ resolved' = other.resolved
    /\ expanded_url' = other.expanded_url
    /\ resp' = other.resp
    /\ post_resp' = other.post_resp
    /\ result' = other.result
    /\ report' = report
    /\ translation' = other.translation
    /\ nlp_input' = other.nlp_input
    /\ nlp_output' = other.nlp_output
    /\ text_result' = other.text_result
    /\ exception' = other.exception
    /\ calls' = other.calls
    /\ overlapped' = (overlapped \/ pc \notin {"start", "done", "raised"})
    /\ UNCHANGED <<nlp, vt_client, tokenizer, world, expanded_urls, user_progress,
                   update, sent, answered, vt_results>>

\* The running call is suspended, or is over, and the other call runs: each
\* call has its own locals, the analyzer and the services are the same.
Switch ==
    /\ other.pc \notin {"none", "done", "raised", "blocked"}
    /\ other' = Frame
    /\ text' = other.text
    /\ pc' = other.pc
    /\ urls' = other.urls
    /\ i' = other.i
    /\ url' = other.url
    /\ resolved' = other.resolved
    /\ expanded_url' = other.expanded_url
    /\ resp' = other.resp
    /\ post_resp' = other.post_resp
    /\ result' = other.result
    /\ report' = other.report
    /\ translation' = other.translation
    /\ nlp_input' = other.nlp_input
    /\ nlp_output' = other.nlp_output
    /\ text_result' = other.text_result
    /\ exception' = other.exception
    /\ calls' = other.calls
    /\ overlapped' = (overlapped \/ pc \notin {"start", "done", "raised"})
    /\ UNCHANGED <<nlp, vt_client, tokenizer, world, expanded_urls, user_progress,
                   update, sent, answered, vt_results>>

NextCalls ==
    \/ ExtractUrls
    \/ ExpandUrl
    \/ CheckUrlGet
    \/ SubmitUrlPost
    \/ AppendUrlLine
    \/ AnalyzeText
    \/ Translate
    \/ Classify
    \/ TextVerdict
    \/ Switch

SpecCalls == InitCalls /\ [][NextCalls]_vars

(***************************************************************************)
(* analyze_message on messages without URLs, some of them long             *)
(***************************************************************************)
\* A run of Latin words, in several sentences, that the classifier's
\* tokenizer splits into more tokens than the classifier takes.
LongWords == {"lorem"}

\* the most tokens the classifier takes
max_length == 512

\* how many tokens of the classifier a token of the message is
TokenCount(token) == IF token \in LongWords THEN max_length + 88 ELSE 1

RECURSIVE TokenLength(_)
TokenLength(t) == IF t = <<>> THEN 0 ELSE TokenCount(Head(t)) + TokenLength(Tail(t))

ProseTexts == SeqsUpTo(LatinWords \cup CyrillicWords \cup LongWords, MaxLen)

InitText ==
    /\ InitAnalyzer
    /\ text \in ProseTexts
    /\ InitCall
    /\ world = AnyWorld
    /\ other = NoFrame
    /\ overlapped = FALSE
    /\ InitNoBot

\* the steps of analyze_message when the message has no URL
NextText ==
    \/ ExtractUrls
    \/ AnalyzeText
    \/ Translate
    \/ Classify
    \/ TextVerdict

SpecText == InitText /\ [][NextText]_vars

(***************************************************************************)
(* main.py: perform_analysis                                               *)
(***************************************************************************)
\* what perform_analysis neither reads nor writes
not_in_main == <<resolved, expanded_url, resp, post_resp, translation, nlp_input,
                 nlp_output, vt_client, tokenizer, world, other, overlapped,
                 user_progress, update, answered, vt_results>>

\* re.findall of line 237: on the tokens of the model, the URL tokens
find_urls(t) == SelectSeq(t, IsUrl)

\* the timeout of the submission POST of check_url_virustotal
MainPostTimeout == 15

\* The bodies of a 200 answer that perform_analysis is run against.
MainBodies ==
    { [json |-> "invalid", stats |-> <<>>],
      [json |-> "dict", stats |-> <<>>],
      [json |-> "dict", stats |-> [malicious |-> 1]],
      [json |-> "dict", stats |-> [suspicious |-> MaxCount]],
      [json |-> "dict", stats |-> [malicious |-> None]] }

MainGetOutcomes ==
    {Return(Response(200, b)) : b \in MainBodies}
        \cup {Return(Response(c, [json |-> "invalid", stats |-> <<>>])) : c \in {404, 429, 500}}
        \cup {NoAnswer(GetTimeout)}

MainPostOutcomes ==
    {Return(Response(c, <<>>)) : c \in {200, 500}} \cup {NoAnswer(MainPostTimeout)}

MainQueuedDict ==
    [status |-> "queued", message |-> "URL submitted for analysis. Check again in 2 minutes."]

\* check_url_virustotal, lines 156-199, from the answers to its GET and POST
check_url_virustotal(got, posted) ==
    IF got.raised THEN check_url_except(got.exc)
    ELSE CASE got.value.status_code = 200 -> check_url_200(got.value.body)
           [] got.value.status_code = 404 ->
                 IF posted.raised THEN check_url_except(posted.exc)
                 ELSE IF posted.value.status_code = 200 THEN MainQueuedDict
                 ELSE ErrorDict("Scan submission error: "
                                    \o ToString(posted.value.status_code))
           [] got.value.status_code = 429 ->
                 ErrorDict("VirusTotal request limit exceeded. Try later.")
           [] OTHER -> ErrorDict("Unknown API error: " \o ToString(got.value.status_code))

\* lines 271-288: the line of one looked-up URL; a comparison of None with a
\* number raises TypeError
vt_result_line(u, res) ==
    IF Truthy(DictGet(res, "error", "")) THEN Return(Line("vt_error", u, res["error"]))
    ELSE IF DictGet(res, "status", "") = "queued" THEN Return(Line("queued", u, ""))
    ELSE LET m == DictGet(res, "malicious", 0)
             su == DictGet(res, "suspicious", 0)
             TypeError == Raise(Exc("TypeError", "'>' not supported"))
         IN  IF m = None THEN TypeError
             ELSE IF m > 1 THEN Return(Line("dangerous", u, ""))
             ELSE IF su = None THEN TypeError
             ELSE IF su > 1 THEN Return(Line("dangerous", u, ""))
             ELSE IF m > 0 \/ su > 0 THEN Return(Line("suspicious", u, ""))
             ELSE Return(Line("safe", u, ""))

\* the markers of the lines that give the verdict of a lookup
VerdictMarkers == {"vt_error", "queued", "dangerous", "suspicious", "safe"}

\* the threshold of line 296, in thousandths
MainThreshold == 600

\* main.py's analyze_text, lines 202-228, from the classifier's outcome
main_analyze_text(outcome) ==
    IF outcome.raised THEN ErrorDict(outcome.exc.msg)
    ELSE [label |-> IF outcome.value.label = "LABEL_1" THEN "phishing" ELSE "safe",
          score |-> outcome.value.score]

\* lines 294-303: the line of the text
main_text_line(res) ==
    IF Truthy(DictGet(res, "error", "")) THEN Line("text_error", "", res["error"])
    ELSE IF DictGet(res, "label", "") = "phishing" /\ DictGet(res, "score", 0) > MainThreshold
         THEN Line("text_suspicious", "", FormatPercent(res["score"]))
    ELSE Line("text_safe", "", "")

\* a message of the bot: its kind and what it carries
Message(kind, content) == [kind |-> kind, content |-> content]

InitPerform ==
    /\ InitAnalyzer
    /\ text \in Texts
    /\ InitCall
    /\ world = AnyWorld
    /\ other = NoFrame
    /\ overlapped = FALSE
    /\ InitNoBot

\* lines 232-240: find the URLs and open the links section
FindUrls ==
    /\ pc = "start"
    /\ urls' = find_urls(text)
    /\ expanded_urls' = <<>>
    /\ IF urls' # <<>>
       THEN /\ report' = <<LinksPreamble>>
            /\ pc' = "pa_resolve"
       ELSE /\ report' = <<NoLinksLine>>
            /\ pc' = "pa_text"
    /\ UNCHANGED <<not_in_main, text, nlp, i, url, result, text_result, exception,
                   calls, sent>>

\* lines 241-264: one pass of the first loop, the resolution of a URL
ResolveUrl ==
    /\ pc = "pa_resolve"
    /\ url' = full_url(urls[i + 1])
    /\ calls' = Called("expand")
    /\ \E outcome \in ExpandOutcomes(urls[i + 1]) :
          IF outcome.raised
          THEN /\ report' = Append(report, Line("unresolved", url',
                                 IF IsRequestException(outcome.exc) THEN outcome.exc.cls
                                 ELSE "Unknown error"))
               /\ expanded_urls' =
                     IF \E k \in 1..Len(expanded_urls) : expanded_urls[k] = url'
                     THEN expanded_urls
                     ELSE Append(expanded_urls, url')
          ELSE /\ report' =
                     IF outcome.value # url' /\ Len(outcome.value) > Len(url') + 5
                     THEN Append(report, Line("shortened", url', outcome.value))
                     ELSE report
               /\ expanded_urls' = Append(expanded_urls, outcome.value)
    /\ IF i + 1 < Len(urls)
       THEN /\ i' = i + 1
            /\ pc' = "pa_resolve"
       ELSE /\ i' = 0
            /\ pc' = "pa_lookup"
    /\ UNCHANGED <<not_in_main, text, nlp, urls, result, text_result, exception, sent>>

\* lines 267-288: one pass of the second loop, the lookup of a resolved URL;
\* lines 311-313 when the line cannot be written
LookupUrl ==
    /\ pc = "pa_lookup"
    /\ url' = expanded_urls[i + 1]
    /\ \E got \in MainGetOutcomes :
        \E posted \in IF ~got.raised /\ got.value.status_code = 404
                      THEN MainPostOutcomes ELSE {NoOutcome} :
          /\ result' = check_url_virustotal(got, posted)
          /\ calls' = [calls EXCEPT !["get"] = @ + 1,
                                    !["post"] = @ + (IF posted = NoOutcome THEN 0 ELSE 1)]
          /\ LET written == vt_result_line(url', result')
             IN  IF written.raised
                 THEN /\ exception' = written.exc
                      /\ report' = report
                      /\ i' = i
                      /\ sent' = <<Message("internal_error", written.exc.msg)>>
                      /\ pc' = "pa_failed"
                 ELSE /\ exception' = exception
                      /\ report' = Append(report, written.value)
                      /\ i' = i + 1
                      /\ sent' = sent
                      /\ pc' = IF i' < Len(expanded_urls) THEN "pa_lookup" ELSE "pa_text"
    /\ UNCHANGED <<not_in_main, text, nlp, urls, expanded_urls, text_result>>

\* lines 291-309: the text section and the reply
ClassifyAndReply ==
    /\ pc = "pa_text"
    /\ IF nlp
       THEN \E outcome \in NlpOutcomes :
               /\ text_result' = main_analyze_text(outcome)
               /\ calls' = Called("nlp")
               /\ report' = report \o <<TextPreamble, main_text_line(text_result')>>
       ELSE /\ text_result' = text_result
            /\ calls' = calls
            /\ report' = Append(report, Line("text_unavailable", "", ""))
    /\ sent' = <<Message("report", report')>>
    /\ pc' = "pa_done"
    /\ UNCHANGED <<not_in_main, text, urls, nlp, i, url, result, exception, expanded_urls>>

NextPerform ==
    \/ FindUrls
    \/ ResolveUrl
    \/ LookupUrl
    \/ ClassifyAndReply

SpecPerform == InitPerform /\ [][NextPerform]_vars

(***************************************************************************)
(* main.py: the handlers of the bot and the safety test                    *)
(***************************************************************************)
\* what the handlers of the safety test neither read nor write
not_in_quiz == <<text, nlp, pc, urls, i, url, resolved, expanded_url, resp, post_resp,
                 result, report, translation, nlp_input, nlp_output, text_result,
                 exception, calls, vt_client, tokenizer, world, other, overlapped,
                 expanded_urls, vt_results>>

Users == {"u1", "u2"}

\* SAFETY_QUESTIONS of main.py: the index of the correct option of each question
SAFETY_QUESTIONS == <<3, 3, 3, 3, 0, 3, 3, 3, 3>>

\* the indexes of the options of a question
Options == 0..3

\* The options the users press: the first and the last, one of which is the
\* correct one for every question.
Pressed == {0, 3}

\* The labels of the two buttons of create_main_keyboard, and the text that
\* handle_message compares with at line 540.
BtnCheck == "Check message/link"
BtnTest == "Take the test"
TestPhrase == "Take the safety test"

create_main_keyboard == <<BtnCheck, BtnTest>>

\* The texts a user sends: the labels of the buttons, the phrase of line 540,
\* an ordinary message and a command no handler is registered for.
MessageTexts == {BtnCheck, BtnTest, TestPhrase, "hello", "/about"}

\* del user_progress[user_id]
Remove(progress, u) ==
    IF DOMAIN progress \subseteq {u} THEN <<>>
    ELSE [v \in DOMAIN progress \ {u} |-> progress[v]]

\* user_progress[user_id] = entry
Put(progress, u, entry) ==
    [v \in DOMAIN progress \cup {u} |-> IF v = u THEN entry ELSE progress[v]]

\* finalize_test, lines 456-503: what it sends
finalize_test_sent(progress, u) ==
    IF u \notin DOMAIN progress THEN <<>>
    ELSE <<Message("final", [score |-> progress[u].score, total |-> Len(SAFETY_QUESTIONS)])>>

\* Mutant: the entry of the user stays after the final result.
finalize_test_KeepsEntry(progress, u) == progress

\* finalize_test, line 502: what it leaves of user_progress
finalize_test(progress, u) == Remove(progress, u)

\* ask_question, lines 370-396: what it sends
ask_question(progress, u) ==
    IF u \notin DOMAIN progress THEN <<Message("test_error", "")>>
    ELSE IF progress[u].current_question >= Len(SAFETY_QUESTIONS)
         THEN finalize_test_sent(progress, u)
         ELSE <<Message("question", progress[u].current_question)>>

\* Mutant: a test that is started again keeps the score of the one before.
start_safety_test_KeepsScore(u) ==
    /\ user_progress' = Put(user_progress, u,
                            [current_question |-> 0,
                             score |-> IF u \in DOMAIN user_progress
                                       THEN user_progress[u].score ELSE 0])
    /\ sent' = <<Message("test_started", "")>> \o ask_question(user_progress', u)

\* start_safety_test, lines 361-367
start_safety_test(u) ==
    /\ user_progress' = Put(user_progress, u, [current_question |-> 0, score |-> 0])
    /\ sent' = <<Message("test_started", "")>> \o ask_question(user_progress', u)

\* The classifier plays no part in the safety test: it is held loaded.
InitQuiz ==
    /\ nlp = TRUE
    /\ vt_client = [api_key |-> "key", headers |-> ("x-apikey" :> "key")]
    /\ tokenizer = "tokenizer"
    /\ text = <<>>
    /\ InitCall
    /\ world = AnyWorld
    /\ other = NoFrame
    /\ overlapped = FALSE
    /\ InitNoBot

\* send_welcome, lines 316-353: the greeting with the main keyboard
SendWelcome ==
    \E u \in Users :
        /\ update' = [handler |-> "send_welcome", user |-> u]
        /\ sent' = <<Message("welcome", create_main_keyboard)>>
        /\ UNCHANGED <<not_in_quiz, user_progress, answered>>

\* start_safety_test_command, lines 356-359
StartSafetyTestCommand ==
    \E u \in Users :
        /\ update' = [handler |-> "start_safety_test_command", user |-> u]
        /\ start_safety_test(u)
        /\ UNCHANGED <<not_in_quiz, answered>>

\* handle_message, lines 532-543
HandleMessage ==
    \E u \in Users, t \in MessageTexts :
        /\ update' = [handler |-> "handle_message", user |-> u, text |-> t]
        /\ IF t = BtnCheck
           THEN /\ sent' = <<Message("prompt", "")>>
                /\ user_progress' = user_progress
           ELSE IF t = TestPhrase
                THEN start_safety_test(u)
                ELSE /\ sent' = IF ~StartsWith(t, "/")
                                THEN <<Message("report", t)>>
                                ELSE <<>>
                     /\ user_progress' = user_progress
        /\ UNCHANGED <<not_in_quiz, answered>>

\* Mutant: an answer is taken whichever question it is for.
HandleAnswer_NoStaleCheck ==
    \E u \in Users, q_idx \in 0..(Len(SAFETY_QUESTIONS) - 1), a_idx \in Pressed :
        /\ update' = [handler |-> "handle_answer", user |-> u, q_idx |-> q_idx,
                      a_idx |-> a_idx]
        /\ IF u \notin DOMAIN user_progress
           THEN /\ sent' = <<Message("no_test", ""), Message("edit_error", ""),
                             Message("continue", create_main_keyboard)>>
                /\ user_progress' = user_progress
           ELSE LET is_correct == a_idx = SAFETY_QUESTIONS[q_idx + 1]
                    entry == user_progress[u]
                    scored == [entry EXCEPT !.score =
                                  IF is_correct THEN @ + 1 ELSE @]
                    advanced == Put(user_progress, u,
                                    [scored EXCEPT !.current_question = @ + 1])
                IN  IF advanced[u].current_question < Len(SAFETY_QUESTIONS)
                    THEN /\ sent' = <<Message("edit_answer", q_idx), Message("answered", "")>>
                                        \o ask_question(advanced, u)
                         /\ user_progress' = advanced
                    ELSE /\ sent' = <<Message("edit_answer", q_idx), Message("answered", "")>>
                                        \o finalize_test_sent(advanced, u)
                         /\ user_progress' = finalize_test(advanced, u)
        /\ UNCHANGED <<not_in_quiz, answered>>

\* handle_answer, lines 399-454
HandleAnswer ==
    \E u \in Users, q_idx \in 0..(Len(SAFETY_QUESTIONS) - 1), a_idx \in Pressed :
        /\ update' = [handler |-> "handle_answer", user |-> u, q_idx |-> q_idx,
                      a_idx |-> a_idx]
        /\ IF u \notin DOMAIN user_progress
           THEN /\ sent' = <<Message("no_test", ""), Message("edit_error", ""),
                             Message("continue", create_main_keyboard)>>
                /\ user_progress' = user_progress
           ELSE IF q_idx # user_progress[u].current_question
           THEN /\ sent' = <<Message("stale", "")>>
                /\ user_progress' = user_progress
           ELSE LET is_correct == a_idx = SAFETY_QUESTIONS[q_idx + 1]
                    entry == user_progress[u]
                    scored == [entry EXCEPT !.score =
                                  IF is_correct THEN @ + 1 ELSE @]
                    advanced == Put(user_progress, u,
                                    [scored EXCEPT !.current_question = @ + 1])
                IN  IF advanced[u].current_question < Len(SAFETY_QUESTIONS)
                    THEN /\ sent' = <<Message("edit_answer", q_idx), Message("answered", "")>>
                                        \o ask_question(advanced, u)
                         /\ user_progress' = advanced
                    ELSE /\ sent' = <<Message("edit_answer", q_idx), Message("answered", "")>>
                                        \o finalize_test_sent(advanced, u)
                         /\ user_progress' = finalize_test(advanced, u)
        /\ UNCHANGED <<not_in_quiz, answered>>

NextQuiz ==
    \/ SendWelcome
    \/ StartSafetyTestCommand
    \/ HandleMessage
    \/ HandleAnswer

SpecQuiz == InitQuiz /\ [][NextQuiz]_vars

(***************************************************************************)
(* bot.py: the safety test                                                 *)
(***************************************************************************)
\* SAFETY_QUESTIONS of bot.py: the index of the correct option of each question
bot_SAFETY_QUESTIONS == <<1, 2>>

\* the indexes of the options of a question of bot.py
bot_Options == 0..2

\* What a user has answered since the test was started: the questions an
\* answer was given for, and those the correct answer was given for.  The
\* program keeps no such record.
NothingAnswered == [seen |-> {}, right |-> {}]

\* ask_question of bot.py, lines 145-158: what it sends
bot_ask_question(progress, u) == <<Message("question", progress[u].current_question)>>

InitBotQuiz ==
    /\ nlp = TRUE
    /\ vt_client = [api_key |-> "key", headers |-> ("x-apikey" :> "key")]
    /\ tokenizer = "tokenizer"
    /\ text = <<>>
    /\ InitCall
    /\ world = AnyWorld
    /\ other = NoFrame
    /\ overlapped = FALSE
    /\ expanded_urls = <<>>
    /\ user_progress = <<>>
    /\ update = NoUpdate
    /\ sent = <<>>
    /\ answered = [u \in Users |-> NothingAnswered]
    /\ vt_results = <<>>

\* start_safety_test of bot.py, lines 139-143
BotStartSafetyTest ==
    \E u \in Users :
        /\ update' = [handler |-> "bot_start_safety_test", user |-> u]
        /\ user_progress' = Put(user_progress, u, [current_question |-> 0, correct |-> 0])
        /\ sent' = bot_ask_question(user_progress', u)
        /\ answered' = [answered EXCEPT ![u] = NothingAnswered]
        /\ UNCHANGED not_in_quiz

\* handle_answer of bot.py, lines 160-214
BotHandleAnswer ==
    \E u \in Users, q_idx \in 0..(Len(bot_SAFETY_QUESTIONS) - 1), a_idx \in bot_Options :
        /\ update' = [handler |-> "bot_handle_answer", user |-> u, q_idx |-> q_idx,
                      a_idx |-> a_idx]
        /\ IF u \notin DOMAIN user_progress
           THEN /\ sent' = <<>>
                /\ UNCHANGED <<user_progress, answered>>
           ELSE LET is_correct == a_idx = bot_SAFETY_QUESTIONS[q_idx + 1]
                    entry == user_progress[u]
                    counted == [entry EXCEPT !.correct =
                                   IF is_correct THEN @ + 1 ELSE @]
                    advanced == Put(user_progress, u,
                                    [counted EXCEPT !.current_question = @ + 1])
                IN  /\ answered' = [answered EXCEPT
                                       ![u].seen = @ \cup {q_idx},
                                       ![u].right = IF is_correct THEN @ \cup {q_idx} ELSE @]
                    /\ IF advanced[u].current_question < Len(bot_SAFETY_QUESTIONS)
                       THEN /\ sent' = <<Message("edit_answer", q_idx)>>
                                           \o bot_ask_question(advanced, u)
                            /\ user_progress' = advanced
                       ELSE /\ sent' = <<Message("edit_answer", q_idx),
                                         Message("final",
                                                 [correct |-> advanced[u].correct,
                                                  total |-> Len(bot_SAFETY_QUESTIONS)])>>
                            /\ user_progress' = Remove(advanced, u)
        /\ UNCHANGED not_in_quiz

NextBotQuiz ==
    \/ BotStartSafetyTest
    \/ BotHandleAnswer

SpecBotQuiz == InitBotQuiz /\ [][NextBotQuiz]_vars

(***************************************************************************)
(* bot2.py: check_message                                                  *)
(***************************************************************************)
\* what check_message of bot2.py neither reads nor writes
not_in_bot2 == <<resolved, expanded_url, resp, post_resp, translation, nlp_input,
                 nlp_output, exception, vt_client, tokenizer, world, other, overlapped,
                 expanded_urls, user_progress, update, answered>>

\* re.findall(r'https?://\S+', text), line 110: the tokens with a scheme
bot2_IsUrl(token) == StartsWithAny(token, {"http://", "https://"})

bot2_find_urls(t) == SelectSeq(t, bot2_IsUrl)

\* the number of detections above which line 115 calls a link dangerous
DangerThreshold == 5

\* the score above which line 122 calls a text suspicious, in thousandths
bot2_Threshold == 700

\* The bodies of a 200 answer: not JSON, JSON without the statistics, and
\* statistics with a count at, above and below the threshold, or null.
bot2_Bodies ==
    {[json |-> "invalid", stats |-> <<>>], [json |-> "no_stats", stats |-> <<>>]}
        \cup {[json |-> "dict", stats |-> [malicious |-> m, suspicious |-> 0]] :
                 m \in {0, DangerThreshold, DangerThreshold + 1, None}}

\* The GET of line 41 and the POST of line 54 pass no timeout.
bot2_GetOutcomes ==
    {Return(Response(200, b)) : b \in bot2_Bodies}
        \cup {Return(Response(c, [json |-> "invalid", stats |-> <<>>])) : c \in {404, 429, 500}}
        \cup {Raise(Exc("ConnectionError", "refused"))}
        \cup {NoAnswer(None)}

bot2_PostOutcomes ==
    {Return(Response(c, <<>>)) : c \in {200, 500}}
        \cup {Raise(Exc("ConnectionError", "refused"))}
        \cup {NoAnswer(None)}

bot2_QueuedDict == [status |-> "queued", message |-> "URL submitted for analysis"]

\* check_url_virustotal of bot2.py, lines 35-61, from the answers to its GET
\* and POST
bot2_check_url_virustotal(got, posted) ==
    IF got.raised THEN ErrorDict(got.exc.msg)
    ELSE CASE got.value.status_code = 200 ->
                 CASE got.value.body.json = "invalid" -> ErrorDict("Expecting value")
                   [] got.value.body.json = "no_stats" -> ErrorDict("'data'")
                   [] OTHER ->
                        [malicious |-> DictGet(got.value.body.stats, "malicious", 0),
                         suspicious |-> DictGet(got.value.body.stats, "suspicious", 0),
                         harmless |-> DictGet(got.value.body.stats, "harmless", 0)]
           [] got.value.status_code = 404 ->
                 IF posted.raised THEN ErrorDict(posted.exc.msg)
                 ELSE IF posted.value.status_code = 200 THEN bot2_QueuedDict
                 ELSE ErrorDict("API error: " \o ToString(posted.value.status_code))
           [] OTHER -> ErrorDict("API error: " \o ToString(got.value.status_code))

\* the classifier's answers that check_message is run against
bot2_NlpOutcomes ==
    {Return([label |-> l, score |-> sc]) :
        l \in {"phishing", "benign"}, sc \in {bot2_Threshold, bot2_Threshold + 1}}
        \cup {Raise(Exc("RuntimeError", "index out of range"))}

\* analyze_text of bot2.py, lines 63-82
bot2_analyze_text(loaded, outcome) ==
    IF ~loaded THEN ErrorDict("NLP model is not loaded")
    ELSE IF outcome.raised THEN ErrorDict(outcome.exc.msg)
    ELSE [label |-> IF outcome.value.label = "phishing" THEN "phishing" ELSE "safe",
          score |-> outcome.value.score,
          keywords |-> <<>>]

InitCheck ==
    /\ InitAnalyzer
    /\ text \in Texts
    /\ InitCall
    /\ world = AnyWorld
    /\ other = NoFrame
    /\ overlapped = FALSE
    /\ InitNoBot

\* lines 104-110: the text after the command, and its URLs
CheckMessage ==
    /\ pc = "start"
    /\ IF text = <<>>
       THEN /\ sent' = <<Message("usage", "")>>
            /\ urls' = urls
            /\ pc' = "cm_done"
       ELSE /\ sent' = sent
            /\ urls' = bot2_find_urls(text)
            /\ pc' = IF urls' # <<>> THEN "cm_lookup" ELSE "cm_text"
    /\ report' = <<>>
    /\ vt_results' = <<>>
    /\ UNCHANGED <<not_in_bot2, text, nlp, i, url, result, text_result, calls>>

\* lines 113-118: one pass of the loop.  A call that is never answered does
\* not return; a null count raises TypeError at line 115, out of the handler.
CheckUrl ==
    /\ pc = "cm_lookup"
    /\ url' = urls[i + 1]
    /\ \E got \in bot2_GetOutcomes :
        \E posted \in IF ~got.raised /\ got.value.status_code = 404
                      THEN bot2_PostOutcomes ELSE {NoOutcome} :
          /\ calls' = [calls EXCEPT !["get"] = @ + 1,
                                    !["post"] = @ + (IF posted = NoOutcome THEN 0 ELSE 1)]
          /\ IF Blocks(got) \/ Blocks(posted)
             THEN /\ pc' = "blocked"
                  /\ UNCHANGED <<result, vt_results, report, i>>
             ELSE /\ result' = bot2_check_url_virustotal(got, posted)
                  /\ vt_results' = Append(vt_results, result')
                  /\ IF "malicious" \in DOMAIN result' /\ result'.malicious = None
                     THEN /\ pc' = "cm_failed"
                          /\ UNCHANGED <<report, i>>
                     ELSE /\ report' =
                                IF "malicious" \in DOMAIN result'
                                      /\ result'.malicious > DangerThreshold
                                THEN Append(report, Line("dangerous", url', ""))
                                ELSE report
                          /\ i' = i + 1
                          /\ pc' = IF i' < Len(urls) THEN "cm_lookup" ELSE "cm_text"
    /\ UNCHANGED <<not_in_bot2, text, nlp, urls, text_result, sent>>

\* lines 121-131: the text and the reply
CheckTextAndReply ==
    /\ pc = "cm_text"
    /\ \E outcome \in IF nlp THEN bot2_NlpOutcomes ELSE {NoOutcome} :
          /\ text_result' = bot2_analyze_text(nlp, outcome)
          /\ calls' = IF nlp THEN Called("nlp") ELSE calls
    /\ report' =
          IF /\ "error" \notin DOMAIN text_result'
             /\ text_result'.label = "phishing"
             /\ text_result'.score > bot2_Threshold
          THEN Append(report, Line("text_suspicious", "", FormatPercent(text_result'.score)))
          ELSE report
    /\ sent' = IF report' # <<>>
               THEN <<Message("report", report')>>
               ELSE <<Message("safe", "")>>
    /\ pc' = "cm_done"
    /\ UNCHANGED <<not_in_bot2, text, nlp, urls, i, url, result, vt_results>>

NextCheck ==
    \/ CheckMessage
    \/ CheckUrl
    \/ CheckTextAndReply

SpecCheck == InitCheck /\ [][NextCheck]_vars

(***************************************************************************)
(* Properties                                                              *)
(***************************************************************************)
IsUrlLine(line) == line.marker \in UrlMarkers

\* the per-URL lines of the report, in report order
PerUrlLines == SelectSeq(report, IsUrlLine)

LastLine == report[Len(report)]

\* the for-loop over the URLs is over
LoopOver == pc \in {"analyze_text", "translate", "classify", "verdict", "done", "raised"}

\* analyze_message has returned or raised
Finished == pc \in {"done", "raised"}

\* _check_url_risk has just returned: result, resp and post_resp are those
\* of the URL whose line is the last of the report
JustAppended == pc \in {"expand", "analyze_text"} /\ i > 0

HasError(res) == "error" \in DOMAIN res

IsCounts(res) == "malicious" \in DOMAIN res

\* the call of self.nlp returned a label and a score
NlpReturned == calls["nlp"] > 0 /\ ~nlp_output.raised

\* C1: analyze_message returns normally for every input and every outcome of
\* the resolver, the reputation service, the translator and the classifier,
\* and the returned report has at least one line.
C1_AlwaysReturnsReport ==
    /\ pc # "raised"
    /\ pc = "done" => Len(report) >= 1

\* C2: the number of per-URL lines equals the number of extracted URLs and
\* the k-th per-URL line is about the k-th extracted URL, whatever happened
\* to the individual URLs.
C2_OneLinePerUrlInOrder ==
    /\ Len(PerUrlLines) = i
    /\ \A k \in 1..i : PerUrlLines[k].url = urls[k]
    /\ LoopOver => i = Len(extract_urls(text))
    /\ Finished => \A k \in 1..Len(urls) : IsUrlLine(report[k + 1]) /\ report[k + 1].url = urls[k]

C2_Witness ==
    /\ pc = "done"
    /\ Len(urls) = 2
    /\ urls[1] # urls[2]
    /\ PerUrlLines[1].marker = "warning"
    /\ PerUrlLines[2].marker = "safe"

\* C3: when no URL is extracted, the report has exactly one 'no links' line
\* in place of the links section: no links preamble, no per-URL line, and
\* neither the resolver nor the reputation service is called.
C3_NoLinks ==
    (pc # "start" /\ extract_urls(text) = <<>>) =>
        /\ report[1] = NoLinksLine
        /\ \A k \in 2..Len(report) : report[k] # NoLinksLine
        /\ \A k \in 1..Len(report) : report[k] # LinksPreamble /\ ~IsUrlLine(report[k])
        /\ calls["expand"] = 0 /\ calls["get"] = 0 /\ calls["post"] = 0

C3_Witness ==
    /\ pc = "done"
    /\ text # <<>>
    /\ extract_urls(text) = <<>>
    /\ Len(report) = 3

\* The tier table of the specification.
TierTable(res) ==
    IF HasError(res) THEN "warning"
    ELSE IF "status" \in DOMAIN res THEN "queued"
    ELSE IF res["malicious"] > 1 \/ res["suspicious"] > 1 THEN "dangerous"
    ELSE IF res["malicious"] > 0 \/ res["suspicious"] > 0 THEN "suspicious"
    ELSE "safe"

NonNegativeCounts(res) ==
    IsCounts(res) => res["malicious"] >= 0 /\ res["suspicious"] >= 0

\* C4: for every verdict with non-negative counts, format_url_result raises
\* nothing and yields the one line of the tier table: warning with the error
\* message, pending, Dangerous, Suspicious or Safe; (2,0) is Dangerous, (1,0)
\* Suspicious and (0,0) Safe.
C4_TierTable ==
    (JustAppended /\ NonNegativeCounts(result)) =>
        /\ ~format_url_result(url, result).raised
        /\ LastLine.marker = TierTable(result)
        /\ LastLine.url = url
        /\ HasError(result) => LastLine.detail = result["error"]
        /\ (IsCounts(result) /\ result["malicious"] = 2 /\ result["suspicious"] = 0)
              => LastLine.marker = "dangerous"
        /\ (IsCounts(result) /\ result["malicious"] = 1 /\ result["suspicious"] = 0)
              => LastLine.marker = "suspicious"
        /\ (IsCounts(result) /\ result["malicious"] = 0 /\ result["suspicious"] = 0)
              => LastLine.marker = "safe"

C4_Witness ==
    /\ JustAppended
    /\ IsCounts(result)
    /\ result["malicious"] = 1
    /\ result["suspicious"] = 2
    /\ LastLine.marker = "dangerous"

\* the reputation GET answered 404 and the submission POST answered 200
NotFoundThenSubmitted ==
    /\ resp.state = "ok" /\ resp.status_code = 404
    /\ post_resp.state = "ok" /\ post_resp.status_code = 200

\* C5: a reputation GET answered 404 followed by a submission POST answered
\* 200 makes check_url return the queued verdict, and the line of that URL is
\* exactly the pending line.
C5_QueuedLine ==
    /\ (pc = "format" /\ NotFoundThenSubmitted) => result = QueuedDict
    /\ (JustAppended /\ NotFoundThenSubmitted) =>
          /\ result = QueuedDict
          /\ LastLine = Line("queued", url, "")
          /\ url = urls[i]

C5_Witness ==
    /\ JustAppended
    /\ NotFoundThenSubmitted
    /\ LastLine.marker = "queued"

RateLimited == resp.state = "ok" /\ resp.status_code = 429

\* C6: a reputation GET answered 429 makes check_url return an error verdict
\* that names the request limit, no submission POST is issued, and the line of
\* that URL is the warning line, whatever counts the response carries.
C6_RateLimited ==
    RateLimited =>
        /\ pc # "post"
        /\ post_resp = NoResponse
        /\ result = ErrorDict("Request limit exceeded")
        /\ JustAppended => LastLine = Line("warning", url, "Request limit exceeded")

C6_Witness ==
    /\ JustAppended
    /\ RateLimited
    /\ resp.body.json = "dict"
    /\ DictGet(resp.body.stats, "malicious", 0) = 2
    /\ LastLine.marker = "warning"
    /\ calls["post"] = 0

\* C7: the text verdict line is the Suspicious-text line exactly when the
\* classifier returned the label phishing with a confidence above 0.5; a
\* score of 0.51 is shown as 51%, a score of exactly 0.50 gives the Safe-text
\* line.
C7_TextThreshold ==
    pc = "done" =>
        /\ LastLine.marker = "text_suspicious"
              <=> (NlpReturned /\ nlp_output.value.label = "phishing"
                               /\ nlp_output.value.score > 500)
        /\ (NlpReturned /\ nlp_output.value.label = "phishing" /\ nlp_output.value.score = 510)
              => LastLine = Line("text_suspicious", "", "51%")
        /\ (NlpReturned /\ nlp_output.value.score = 500) => LastLine = Line("text_safe", "", "")
        /\ (NlpReturned /\ nlp_output.value.label # "phishing") => LastLine = Line("text_safe", "", "")

C7_Witness ==
    /\ pc = "done"
    /\ NlpReturned
    /\ nlp_output.value.label = "phishing"
    /\ nlp_output.value.score = 510
    /\ LastLine.detail = "51%"

TranslationFailed == translation.raised /\ translation.exc # NoExc

\* C8: when the translation raises, analyze_text returns an error verdict at
\* once and the classifier is not called for that request, on no text at all.
C8_NoClassifyAfterTranslationFailure ==
    TranslationFailed =>
        /\ pc \in {"verdict", "done", "raised"}
        /\ HasError(text_result)
        /\ text_result = ErrorDict("Translation error: " \o translation.exc.msg)
        /\ calls["nlp"] = 0
        /\ nlp_input = <<>>
        /\ nlp_output = NoOutcome

C8_Witness ==
    /\ pc = "done"
    /\ TranslationFailed
    /\ HasCyrillic(text)
    /\ LastLine.marker = "text_error"

ResolverFailed == pc = "get" /\ resolved.raised /\ resolved.exc # NoExc

UrlFailed == HasError(result) \/ format_url_result(url, result).raised

\* C10, in every state: a URL whose processing failed has exactly one warning
\* line; when analyze_message is over every URL was resolved and looked up
\* once and has its line, and the text section follows; an exception leaves
\* analyze_message only for the classifier's empty error message, never for
\* what happened to a URL.
C10_State ==
    /\ (JustAppended /\ UrlFailed) =>
          /\ LastLine.marker = "warning"
          /\ LastLine.url = urls[i]
          /\ Len(PerUrlLines) = i
    /\ Finished =>
          /\ calls["expand"] = Len(urls)
          /\ calls["get"] = Len(urls)
          /\ Len(PerUrlLines) = Len(urls)
          /\ \E k \in 1..Len(report) : report[k] = TextPreamble
          /\ calls["nlp"] + calls["translate"] > 0 \/ HasError(text_result)
    /\ pc = "done" => LastLine.marker \in TextMarkers
    /\ pc = "raised" => exception.cls = "KeyError" /\ text_result = ErrorDict("")

\* C10, in every step: a failed URL does not end the loop, and no step
\* changes or removes a line that is already in the report.
C10_Step ==
    /\ Len(report') >= Len(report)
    /\ SubSeq(report', 1, Len(report)) = report
    /\ (pc = "format" /\ UrlFailed) =>
          /\ Len(report') = Len(report) + 1
          /\ pc' = IF i + 1 < Len(urls) THEN "expand" ELSE "analyze_text"

TextFailed ==
    \/ ~nlp
    \/ translation.raised /\ translation.exc # NoExc
    \/ calls["nlp"] > 0 /\ nlp_output.raised

IsTextLine(line) == line.marker \in TextMarkers

\* C11: whenever the text classification fails, whatever the message of the
\* exception, the text section is the text preamble followed by exactly one
\* error line, and no Suspicious-text or Safe-text line is emitted.
C11_OneErrorLine ==
    (Finished /\ TextFailed) =>
        /\ pc = "done"
        /\ Len(report) >= 2
        /\ report[Len(report) - 1] = TextPreamble
        /\ LastLine.marker = "text_error"
        /\ Len(SelectSeq(report, IsTextLine)) = 1

\* C12: without a classifier analyze_text returns the model-unavailable error
\* and calls neither the translator nor the classifier, and analyze_message
\* still produces the whole links section.
C12_ModelUnavailable ==
    ~nlp =>
        /\ calls["translate"] = 0
        /\ calls["nlp"] = 0
        /\ pc \notin {"translate", "classify", "raised"}
        /\ pc \in {"verdict", "done"} => text_result = ErrorDict("Model not loaded")
        /\ pc = "done" =>
              /\ LastLine = Line("text_error", "", "Model not loaded")
              /\ Len(PerUrlLines) = Len(extract_urls(text))
              /\ calls["expand"] = Len(extract_urls(text))
              /\ calls["get"] = Len(extract_urls(text))
              /\ report[1] = IF extract_urls(text) = <<>> THEN NoLinksLine ELSE LinksPreamble

C12_Witness ==
    /\ ~nlp
    /\ pc = "done"
    /\ HasCyrillic(text)
    /\ Len(PerUrlLines) = 1
    /\ PerUrlLines[1].marker = "dangerous"

\* check_url has returned: result is its value, resp the answer to its GET
CheckReturned == pc = "format" \/ JustAppended

\* a parsed body that lacks a counter or carries null for it
LacksCounters(body) ==
    /\ body.json = "dict"
    /\ \E k \in {"malicious", "suspicious"} : DictGet(body.stats, k, None) = None

\* the answers to the GET that the claim calls failures
BadAnswer ==
    \/ resp.state = "raised"
    \/ resp.state = "ok" /\ resp.status_code \notin {200, 404, 429}
    \/ resp.state = "ok" /\ resp.status_code = 200
          /\ (resp.body.json \in {"invalid", "no_dict"} \/ LacksCounters(resp.body))

\* C13 as stated: check_url never raises and returns an error verdict, never
\* counts and never queued, for every other status, every network exception
\* and every 200 body that is malformed or lacks the expected structure.
C13_ErrorOnEveryBadAnswer ==
    (CheckReturned /\ BadAnswer) => HasError(result)

\* C13 amended: an error verdict with the status code or the description of
\* the exception for every other status, every network exception and every
\* 200 body that is not JSON or is not made of objects; a 200 body whose
\* objects lack keys or counters gives counts, the missing ones being 0.
C13_ErrorOrDefaultedCounts ==
    CheckReturned =>
        /\ exception = NoExc
        /\ resp.state = "raised" =>
              HasError(result) /\ StartsWith(result["error"], "Network error: ")
        /\ (resp.state = "ok" /\ resp.status_code \notin {200, 404, 429}) =>
              result = ErrorDict("API error: " \o ToString(resp.status_code))
        /\ (resp.state = "ok" /\ resp.status_code = 200 /\ resp.body.json # "dict") =>
              HasError(result) /\ StartsWith(result["error"], "Unknown error: ")
        /\ (resp.state = "ok" /\ resp.status_code = 200 /\ resp.body.json = "dict") =>
              /\ DOMAIN result = {"malicious", "suspicious", "harmless"}
              /\ \A k \in DOMAIN result : result[k] = DictGet(resp.body.stats, k, 0)

C13_Witness ==
    /\ JustAppended
    /\ resp.state = "ok"
    /\ resp.status_code = 200
    /\ resp.body.json = "invalid"
    /\ HasError(result)
    /\ LastLine.marker = "warning"

\* the GET answered 404 and the POST was not answered with 200
SubmissionFailed ==
    /\ resp.state = "ok" /\ resp.status_code = 404
    /\ \/ post_resp.state = "raised"
       \/ post_resp.state = "ok" /\ post_resp.status_code # 200

\* C14: when the GET answers 404 and the submission does not succeed (another
\* status than 200, or an exception), check_url returns an error verdict,
\* never the queued verdict and never counts.
C14_SubmissionFailure ==
    (CheckReturned /\ SubmissionFailed) =>
        /\ HasError(result)
        /\ result # QueuedDict
        /\ ~IsCounts(result)
        /\ post_resp.state = "ok" =>
              result = ErrorDict("Submission error: " \o ToString(post_resp.status_code))
        /\ JustAppended => LastLine.marker = "warning"

C14_Witness ==
    /\ JustAppended
    /\ SubmissionFailed
    /\ post_resp.state = "raised"
    /\ LastLine.marker = "warning"

\* the calls of check_url that have begun
ChecksStarted ==
    i + (IF pc \in {"post", "format"} \/ (pc = "blocked" /\ resp # NoResponse) THEN 1 ELSE 0)

C15_State ==
    /\ calls["get"] = ChecksStarted
    /\ calls["post"] <= calls["get"]
    /\ post_resp.state # "unset" => resp.state = "ok" /\ resp.status_code = 404
    /\ pc = "post" => resp.state = "ok" /\ resp.status_code = 404 /\ post_resp = NoResponse

C15_Step ==
    /\ calls'["get"] \in {calls["get"], calls["get"] + 1}
    /\ calls'["get"] # calls["get"] => pc = "get" /\ pc' # "get"
    /\ calls'["post"] \in {calls["post"], calls["post"] + 1}
    /\ calls'["post"] # calls["post"] => pc = "post" /\ pc' # "post" /\ pc' # "get"
    /\ (pc \in {"post", "format"} /\ pc' = "get") => FALSE

\* C15: a call of check_url issues exactly one GET and at most one POST, the
\* POST only after the GET answered 404, and repeats neither.
C15_SingleAttempt == []C15_State /\ [][C15_Step]_vars

C15_Witness ==
    /\ pc = "done"
    /\ Len(urls) = 2
    /\ calls["get"] = 2
    /\ calls["post"] = 1

UrlPhase == pc \in {"expand", "get", "post", "format", "blocked"}

\* how far analyze_message has come
Rank ==
    CASE pc = "start" -> 0
      [] pc = "expand" -> 4 * i + 1
      [] pc = "get" -> 4 * i + 2
      [] pc = "post" -> 4 * i + 3
      [] pc \in {"format", "blocked"} -> 4 * i + 4
      [] pc = "analyze_text" -> 4 * Len(urls) + 5
      [] pc = "translate" -> 4 * Len(urls) + 6
      [] pc = "classify" -> 4 * Len(urls) + 7
      [] pc = "verdict" -> 4 * Len(urls) + 8
      [] OTHER -> 4 * Len(urls) + 9

C19_State ==
    /\ calls["extract_urls"] = (IF pc = "start" THEN 0 ELSE 1)
    /\ i <= Len(urls)
    /\ calls["expand"] = i + (IF pc \in {"get", "post", "format", "blocked"} THEN 1 ELSE 0)
    /\ calls["get"] = ChecksStarted
    /\ calls["format"] = i
    /\ pc \in {"get", "post", "format", "blocked"} => url = urls[i + 1]
    /\ (UrlPhase \/ pc = "start") =>
          calls["analyze_text"] = 0 /\ calls["translate"] = 0 /\ calls["nlp"] = 0
    /\ LoopOver =>
          /\ i = Len(urls)
          /\ calls["analyze_text"] = (IF pc = "analyze_text" THEN 0 ELSE 1)
          /\ calls["translate"] <= 1
          /\ calls["nlp"] <= 1
    /\ calls["nlp"] = 1 => pc \in {"verdict", "done", "raised"}

C19_Step == Rank' > Rank

\* C19: analyze_message is one forward pass: the extraction first; for each
\* URL the resolution, then its lookup, then its line, each once; a URL is
\* finished before the next is resolved; the text is classified once, after
\* all URLs; no step is entered again.
C19_SinglePass == []C19_State /\ [][C19_Step]_vars

C19_Witness ==
    /\ pc = "done"
    /\ Len(urls) = 2
    /\ calls["expand"] = 2
    /\ calls["post"] = 1
    /\ calls["translate"] = 0
    /\ calls["nlp"] = 1

\* the text has a Cyrillic letter, inside the range of line 192 or not
ContainsCyrillic(t) == \E k \in 1..Len(t) : t[k] \in CyrillicWords

\* C20: for every input with at least one Cyrillic character, a loaded
\* classifier and a working translator, analyze_text calls the translator and
\* the classifier is scored on the translator's output, never on the original.
C20_ScoredOnTranslation ==
    (nlp /\ ContainsCyrillic(text) /\ calls["nlp"] > 0) =>
        /\ calls["translate"] = 1
        /\ translation = Return(translate_ru_to_en(text))
        /\ nlp_input = translate_ru_to_en(text)
        /\ nlp_input # text

\* C16: every network call of an analysis (the resolver's GET, the report GET,
\* the submission POST) has a timeout, so that no call waits for ever on a
\* host that never answers and analyze_message returns.
C16_NoCallWaitsForEver == pc # "blocked"

\* how the running call and the other call ended
Outcome == [pc |-> pc, report |-> report, exception |-> exception]

OtherOutcome == [pc |-> other.pc, report |-> other.report, exception |-> other.exception]

BothFinished == Finished /\ other.pc \in {"done", "raised"}

\* C17: two calls of analyze_message with the same message, against
\* deterministic resolver, reputation service, translator and classifier, end
\* alike with the same lines in the same order; the first call leaves nothing
\* that changes the second.
C17_SameInputSameReport ==
    (BothFinished /\ text = other.text) =>
        /\ Outcome = OtherOutcome
        /\ Outcome = analyze_message(text, nlp, world)

C17_Witness ==
    /\ BothFinished
    /\ ~overlapped
    /\ text = other.text
    /\ pc = "done"
    /\ Len(PerUrlLines) = 1
    /\ PerUrlLines[1].marker = "queued"
    /\ nlp

C18_State ==
    /\ Finished => Outcome = analyze_message(text, nlp, world)
    /\ other.pc \in {"done", "raised"} =>
          OtherOutcome = analyze_message(other.text, nlp, world)

C18_Step ==
    /\ vt_client' = vt_client
    /\ nlp' = nlp
    /\ tokenizer' = tokenizer

\* C18: analyze_message writes no shared state (vt_client with its api key
\* and headers, the nlp pipeline and the tokenizer stay as they are), and
\* however two calls on one analyzer interleave, each ends with the report
\* it has when it runs alone.
C18_NoSharedWrites == []C18_State /\ [][C18_Step]_vars

C18_Witness ==
    /\ BothFinished
    /\ overlapped
    /\ text # other.text
    /\ Len(PerUrlLines) = 1
    /\ Len(SelectSeq(other.report, IsUrlLine)) = 1
    /\ PerUrlLines[1].marker # SelectSeq(other.report, IsUrlLine)[1].marker

\* how often a token occurs in a sequence
Occurrences(seq, token) == Cardinality({k \in 1..Len(seq) : seq[k] = token})

\* the lines of the report that name a URL
LinesNaming(u) == Cardinality({k \in 1..Len(report) : IsUrlLine(report[k]) /\ report[k].url = u})

\* C22: nothing is deduplicated or cached: a URL that occurs k times in the
\* message gets k lines, and there are as many resolver calls and as many
\* report GETs as URL occurrences, each one sent to the service.
C22_NoDeduplication ==
    LoopOver =>
        /\ \A u \in UrlTokens : LinesNaming(u) = Occurrences(text, u)
        /\ calls["expand"] = Len(extract_urls(text))
        /\ calls["get"] = Len(extract_urls(text))
        /\ calls["format"] = Len(extract_urls(text))

C22_Witness ==
    /\ pc = "done"
    /\ text = <<"b.io", "b.io">>
    /\ calls["expand"] = 2
    /\ calls["get"] = 2
    /\ LinesNaming("b.io") = 2
    /\ PerUrlLines[1].marker = "safe"
    /\ PerUrlLines[2].marker = "dangerous"

\* C23: a returned report is the links preamble and one line per URL (or the
\* single no-links line), then the text preamble, then one text verdict line:
\* N + 3 lines for N >= 1 URLs, 3 lines for none, the text section last.
C23_ReportShape ==
    pc = "done" =>
        LET N == Len(extract_urls(text))
        IN  /\ Len(report) = N + 3
            /\ report[1] = IF N >= 1 THEN LinksPreamble ELSE NoLinksLine
            /\ N = 0 => Len(report) = 3
            /\ \A k \in 2..(N + 1) : IsUrlLine(report[k])
            /\ report[N + 2] = TextPreamble
            /\ report[N + 3].marker \in TextMarkers
            /\ \A k \in 1..(N + 2) : report[k].marker \notin TextMarkers

C23_Witness ==
    /\ pc = "done"
    /\ Len(extract_urls(text)) = 2
    /\ Len(report) = 5
    /\ LastLine.marker = "text_safe"

\* C24: the lookup is made for what the resolver gave back (where the
\* redirects ended, or the requested URL when the resolution failed), and the
\* line names the URL as it was extracted, also when the two differ.
C24_LookupResolvedNameExtracted ==
    /\ pc \in {"get", "post", "format"} \/ JustAppended =>
          /\ url = urls[IF JustAppended THEN i ELSE i + 1]
          /\ expanded_url = expand_url(url, world["expand"][url])
    /\ CheckReturned => result = check_url(expanded_url, world)
    /\ JustAppended => LastLine.url = url

C24_Witness ==
    /\ JustAppended
    /\ expanded_url = Landing
    /\ url = "http://a.io"
    /\ LastLine = Line("warning", "http://a.io", "Request limit exceeded")
    /\ check_url(url, world) # check_url(expanded_url, world)

\* C21: the text that analyze_text hands to the classifier is truncated to the
\* classifier's maximum input length first: whatever the length of the
\* message, the classifier gets at most 512 tokens.
C21_ClassifierInputTruncated ==
    calls["nlp"] > 0 => TokenLength(nlp_input) <= max_length

\* the lines of perform_analysis that give the verdict of a lookup
IsVerdictLine(line) == line.marker \in VerdictMarkers

VerdictLines == SelectSeq(report, IsVerdictLine)

\* C25: in perform_analysis, whichever resolutions fail, one lookup is made
\* and one verdict line is written for every extracted URL, in the order of
\* extraction, repeated URLs included.
C25_OneLookupPerUrl ==
    pc = "pa_done" =>
        /\ calls["get"] = Len(find_urls(text))
        /\ Len(VerdictLines) = Len(find_urls(text))
        /\ Len(expanded_urls) = Len(find_urls(text))
        /\ \A k \in 1..Len(VerdictLines) : VerdictLines[k].url = expanded_urls[k]

\* C26: pressing the quiz button of the main keyboard, which sends the label
\* of the button as a text message, starts the safety test: the entry of the
\* user is created at question 0 with score 0, the first question is asked and
\* the message is not analysed.
C26_QuizButtonStartsTest ==
    (update.handler = "handle_message" /\ update.text = create_main_keyboard[2]) =>
        /\ update.user \in DOMAIN user_progress
        /\ user_progress[update.user] = [current_question |-> 0, score |-> 0]
        /\ sent = <<Message("test_started", ""), Message("question", 0)>>

\* the final results among the messages of a handler
Finals(msgs) == Cardinality({k \in 1..Len(msgs) : msgs[k].kind = "final"})

\* the handler that has just run is handle_answer for user u
AnswerFrom(u) == update'.handler = "handle_answer" /\ update'.user = u

\* the handler that has just run started a new test for user u
NewTestFor(u) ==
    /\ update'.handler \in {"start_safety_test_command", "handle_message"}
    /\ update'.user = u
    /\ u \in DOMAIN user_progress'
    /\ user_progress'[u] = [current_question |-> 0, score |-> 0]

C27_Step ==
    \A u \in Users :
        LET had == u \in DOMAIN user_progress
            has == u \in DOMAIN user_progress'
        IN  /\ (AnswerFrom(u) /\ had
                  /\ update'.q_idx # user_progress[u].current_question) =>
                    /\ user_progress' = user_progress
                    /\ sent' = <<Message("stale", "")>>
            /\ (had /\ has /\ user_progress'[u] # user_progress[u]) =>
                    \/ NewTestFor(u)
                    \/ /\ AnswerFrom(u)
                       /\ update'.q_idx = user_progress[u].current_question
                       /\ user_progress'[u].current_question =
                              user_progress[u].current_question + 1
                       /\ user_progress'[u].score - user_progress[u].score =
                              IF update'.a_idx = SAFETY_QUESTIONS[update'.q_idx + 1]
                              THEN 1 ELSE 0

C29_State ==
    /\ Finals(sent) <= 1
    /\ Finals(sent) = 1 =>
          /\ update.handler = "handle_answer"
          /\ update.q_idx = Len(SAFETY_QUESTIONS) - 1
          /\ update.user \notin DOMAIN user_progress

C29_Step ==
    /\ \A u \in Users :
          /\ (AnswerFrom(u) /\ u \in DOMAIN user_progress
                /\ update'.q_idx = user_progress[u].current_question
                /\ update'.q_idx = Len(SAFETY_QUESTIONS) - 1) =>
                  /\ Finals(sent') = 1
                  /\ user_progress' = Remove(user_progress, u)
          /\ (AnswerFrom(u) /\ u \notin DOMAIN user_progress) =>
                  /\ Finals(sent') = 0
                  /\ user_progress' = user_progress
    /\ \A v \in Users \ {update'.user} :
          /\ v \in DOMAIN user_progress' <=> v \in DOMAIN user_progress
          /\ v \in DOMAIN user_progress => user_progress'[v] = user_progress[v]

C30_FinalCountsEachQuestionOnce ==
    (update.handler = "bot_handle_answer" /\ Finals(sent) = 1) =>
        /\ answered[update.user].seen = 0..(Len(bot_SAFETY_QUESTIONS) - 1)
        /\ sent[Len(sent)].content.correct = Cardinality(answered[update.user].right)

\* what check_url_virustotal returns for a URL that was looked up and whose
\* count is not above the threshold
LookedUpBelowThreshold(res) ==
    /\ "error" \notin DOMAIN res
    /\ "status" \notin DOMAIN res
    /\ "malicious" \in DOMAIN res
    /\ res.malicious # None
    /\ res.malicious <= DangerThreshold

\* C31: check_message of bot2.py answers that the message is safe only when
\* every URL of the text was looked up with success and a count that is not
\* above the threshold, and the text was classified and is not suspicious: a
\* lookup that ends in an error, a rate limit or a queued scan, and a
\* classification that fails, are never reported as safe.
C31_SafeOnlyWhenAllChecked ==
    (pc = "cm_done" /\ sent = <<Message("safe", "")>>) =>
        /\ Len(vt_results) = Len(bot2_find_urls(text))
        /\ \A k \in 1..Len(vt_results) : LookedUpBelowThreshold(vt_results[k])
        /\ "error" \notin DOMAIN text_result
        /\ ~(text_result.label = "phishing" /\ text_result.score > bot2_Threshold)

====
